---- MODULE Spec2Model ----
(***************************************************************************)
(* Model of etils/ecolab/inspects/nodes.py: the node registry, the node    *)
(* factory, header/inner rendering and the value formatter.                *)
(*                                                                         *)
(* Python strings are modelled as sequences of one-character strings, so   *)
(* that startswith/endswith, len, slicing and html.escape are computed.    *)
(* HTML produced by html_helper (H.span, H.li, H.ul) is modelled as a tree *)
(* of records: [tag, id, class, text, content].                            *)
(***************************************************************************)
EXTENDS Integers, Sequences, FiniteSets, TLC

VARIABLES
  ALL_NODES,    \* nodes.py:38  dict id -> node
  uuid_clock,   \* state of uuid.uuid1(): the last id handed out
  constructed,  \* history: every node whose __post_init__ has run
  result,       \* what the last call returned (or raised)
  arg,          \* input of the function called directly
  out,          \* its output
  pc            \* "idle", "call" (before the direct call) or "done" (after it)

vars == <<ALL_NODES, uuid_clock, constructed, result, arg, out, pc>>

(***************************************************************************)
(* Bounds                                                                  *)
(***************************************************************************)
MaxNodes == 6     \* registry size at which no further node is built
MaxAttrs == 5     \* attributes of the objects whose attributes are enumerated
MaxOutside == 2   \* registry size at which no further node is built from outside
MaxPad == 3       \* characters after the special character of a test string
MaxOver == 2      \* how far past the threshold test strings go

(***************************************************************************)
(* Strings                                                                 *)
(***************************************************************************)
RECURSIVE Rep(_, _)
Rep(c, n) == IF n <= 0 THEN <<>> ELSE <<c>> \o Rep(c, n - 1)

startswith(s, p) == Len(s) >= Len(p) /\ SubSeq(s, 1, Len(p)) = p

endswith(s, p) == Len(s) >= Len(p) /\ SubSeq(s, Len(s) - Len(p) + 1, Len(s)) = p

\* value[:n]
Slice(s, n) == SubSeq(s, 1, IF Len(s) < n THEN Len(s) ELSE n)

\* F applied to the value of v, with v computed once
Bind(v, F(_)) == CHOOSE r \in {F(x) : x \in {v}} : TRUE

\* html.escape(s, quote=True), one character
EscapeChar(c) ==
  CASE c = "&" -> <<"&", "a", "m", "p", ";">>
    [] c = "<" -> <<"&", "l", "t", ";">>
    [] c = ">" -> <<"&", "g", "t", ";">>
    [] c = "\"" -> <<"&", "q", "u", "o", "t", ";">>
    [] c = "'" -> <<"&", "#", "x", "2", "7", ";">>
    [] OTHER -> <<c>>

RECURSIVE html_escape(_)
html_escape(s) ==
  IF s = <<>> THEN <<>> ELSE EscapeChar(Head(s)) \o html_escape(Tail(s))

Digit(d) == <<"0", "1", "2", "3", "4", "5", "6", "7", "8", "9">>[d + 1]

\* repr() of a non-negative int
RECURSIVE IntRepr(_)
IntRepr(i) == IF i < 10 THEN <<Digit(i)>> ELSE IntRepr(i \div 10) \o <<Digit(i % 10)>>

(***************************************************************************)
(* HTML fragments (html_helper)                                            *)
(***************************************************************************)
Text(s) == [tag |-> "text", id |-> 0, class |-> <<>>, text |-> s, content |-> <<>>]

Elem(t, i, cls, content) ==
  [tag |-> t, id |-> i, class |-> cls, text |-> <<>>, content |-> content]

H_span(cls, content) == Elem("span", 0, cls, content)

H_li(i, content) == Elem("li", i, <<>>, content)

H_ul(cls, content) == Elem("ul", 0, cls, content)

(***************************************************************************)
(* _truncate_long_str                                                      *)
(***************************************************************************)
TruncateLimit == 80

\* truncating from 80 characters on
_truncate_long_str_off_by_one(value) ==
  LET v == html_escape(value) IN
  IF Len(v) >= TruncateLimit
  THEN H_span(<<"content-switch">>,
         << H_span(<<"content-version-short">>,
              << Text(Slice(v, TruncateLimit)),
                 H_span(<<"content-switch-expand", "register-onclick-switch">>,
                        <<Text(<<".", ".", ".">>)>>) >>),
            H_span(<<"content-version-long", "register-onclick-switch">>,
                   <<Text(v)>>) >>)
  ELSE Text(v)

_truncate_long_str(value) ==
  LET v == html_escape(value) IN
  IF Len(v) > TruncateLimit
  THEN H_span(<<"content-switch">>,
         << H_span(<<"content-version-short">>,
              << Text(Slice(v, TruncateLimit)),
                 H_span(<<"content-switch-expand", "register-onclick-switch">>,
                        <<Text(<<".", ".", ".">>)>>) >>),
            H_span(<<"content-version-long", "register-onclick-switch">>,
                   <<Text(v)>>) >>)
  ELSE Text(v)

(***************************************************************************)
(* Python values.  A value is a record                                     *)
(*   isa   : the types t for which isinstance(value, t) holds              *)
(*   repr  : what repr(value) does: [ok, chars, exc]                       *)
(*   e     : for an ExceptionWrapper, the wrapped exception                *)
(*   spec  : for an array, repr(enp.ArraySpec.from_array(value))           *)
(*   attrs : attrs.get_attrs(value), as a sequence of [name, val]          *)
(*   items : the entries of a collection, in iteration order, [k, v]       *)
(*   mro   : value.mro() for a class                                       *)
(* attrs, items and mro refer to other values by their address in Heap.    *)
(***************************************************************************)
isinstance(obj, types) == obj.isa \cap types # {}

ReprOk(chars) == [ok |-> TRUE, chars |-> chars, exc |-> ""]

ReprRaises(exc) == [ok |-> FALSE, chars |-> <<>>, exc |-> exc]

Value(isa, r) ==
  [isa |-> isa \cup {"object"}, repr |-> r, e |-> "", spec |-> <<>>,
   attrs |-> <<>>, items |-> <<>>, mro |-> <<>>]

\* The exceptions a failing __repr__ raises: one whose own repr works, one
\* whose own repr raises again.
Exceptions == {"GoodError", "BadReprError"}

ExceptionValue(exc) ==
  Value({"Exception"},
        IF exc = "GoodError"
        THEN ReprOk(<<"G", "o", "o", "d", "E", "r", "r", "o", "r", "(", ")">>)
        ELSE ReprRaises("BadReprError"))

\* attrs.ExceptionWrapper(e)
ExceptionWrapper(exc) ==
  [Value({"ExceptionWrapper"}, ReprOk(<<"E", "x", "c", "(", ")">>)) EXCEPT !.e = exc]

IntValue(i) == Value({"int"}, ReprOk(IntRepr(i)))

\* enp.ArraySpec.from_array(obj): a descriptor whose repr is the shape/dtype
ArraySpec_from_array(obj) == Value({"ArraySpec"}, ReprOk(obj.spec))

(***************************************************************************)
(* _obj_html_repr.  Returns [raised, exc, html]: either the exception that *)
(* escapes the call, or the fragment returned.                             *)
(***************************************************************************)
Returned(h) == [raised |-> FALSE, exc |-> "", html |-> h]

Raised(exc) == [raised |-> TRUE, exc |-> exc, html |-> Text(<<>>)]

\* nodes.py:371-374 for a value that is not already a str
FinishRepr(type_, obj) ==
  IF obj.repr.ok
  THEN Returned(H_span(<<type_>>, <<Text(html_escape(obj.repr.chars))>>))
  ELSE Raised(obj.repr.exc)

\* nodes.py:356 and 369 followed by 371-374: the fragment is already a str
FinishTruncated(type_, chars) ==
  Returned(H_span(<<type_>>, <<_truncate_long_str(chars)>>))

\* bool tested before int and float
_obj_html_repr_bool_first(obj) ==
  CASE isinstance(obj, {"NoneType"}) -> FinishRepr("null", obj)
    [] isinstance(obj, {"ellipsis"}) -> FinishRepr("null", obj)
    [] isinstance(obj, {"bool"}) -> FinishRepr("boolean", obj)
    [] isinstance(obj, {"int", "float"}) -> FinishRepr("number", obj)
    [] isinstance(obj, {"str", "bytes"}) ->
         IF obj.repr.ok THEN FinishTruncated("string", obj.repr.chars)
         ELSE Raised(obj.repr.exc)
    [] isinstance(obj, {"LazyArray"}) ->
         FinishRepr("number", ArraySpec_from_array(obj))
    [] isinstance(obj, {"ExceptionWrapper"}) ->
         FinishRepr("error", ExceptionValue(obj.e))
    [] OTHER ->
         IF obj.repr.ok THEN FinishTruncated("preview", obj.repr.chars)
         ELSE FinishRepr("error", ExceptionValue(obj.repr.exc))

RECURSIVE _obj_html_repr(_)
_obj_html_repr(obj) ==
  CASE isinstance(obj, {"NoneType"}) -> FinishRepr("null", obj)
    [] isinstance(obj, {"ellipsis"}) -> FinishRepr("null", obj)
    [] isinstance(obj, {"int", "float"}) -> FinishRepr("number", obj)
    [] isinstance(obj, {"bool"}) -> FinishRepr("boolean", obj)
    [] isinstance(obj, {"str", "bytes"}) ->
         IF obj.repr.ok THEN FinishTruncated("string", obj.repr.chars)
         ELSE Raised(obj.repr.exc)
    [] isinstance(obj, {"LazyArray"}) ->
         FinishRepr("number", ArraySpec_from_array(obj))
    [] isinstance(obj, {"ExceptionWrapper"}) ->
         FinishRepr("error", ExceptionValue(obj.e))
    [] OTHER ->
         IF obj.repr.ok THEN FinishTruncated("preview", obj.repr.chars)
         ELSE _obj_html_repr(ExceptionWrapper(obj.repr.exc))

(***************************************************************************)
(* Node.from_obj: the class selected for a value                           *)
(***************************************************************************)
MATCH_TYPES(cls) ==
  CASE cls = "BuiltinNode" ->
         {"NoneType", "int", "float", "bool", "str", "bytes", "ellipsis"}
    [] cls = "FnNode" ->
         {"FunctionType", "BuiltinFunctionType", "MethodType",
          "MethodDescriptorType", "partial"}
    [] cls = "MappingNode" -> {"dict", "Mapping"}
    [] cls = "SequenceNode" -> {"list", "tuple"}
    [] cls = "SetNode" -> {"set", "frozenset", "Set"}
    [] cls = "ClsNode" -> {"type"}
    [] cls = "ArrayNode" -> {"LazyArray"}
    [] cls = "ExceptionNode" -> {"ExceptionWrapper"}
    [] cls = "ObjectNode" -> {"object"}

\* SequenceNode tried before MappingNode
SubClsOrder_swapped ==
  <<"BuiltinNode", "FnNode", "SequenceNode", "MappingNode", "SetNode",
    "ClsNode", "ArrayNode", "ExceptionNode", "ObjectNode">>

\* the list iterated by the for loop of from_obj
SubClsOrder ==
  <<"BuiltinNode", "FnNode", "MappingNode", "SequenceNode", "SetNode",
    "ClsNode", "ArrayNode", "ExceptionNode", "ObjectNode">>

\* for sub_cls in [...]: if isinstance(obj, sub_cls.MATCH_TYPES): break
\* else: raise TypeError
from_obj_cls(obj) ==
  LET hits == {i \in 1..Len(SubClsOrder) : isinstance(obj, MATCH_TYPES(SubClsOrder[i]))} IN
  IF hits = {} THEN "TypeError"
  ELSE SubClsOrder[CHOOSE i \in hits : \A j \in hits : i <= j]

(***************************************************************************)
(* The values the inspector is used on.  Heap[a] is the value at address a *)
(***************************************************************************)
Attr(name, val) == [name |-> name, val |-> val]

Item(k, v) == [k |-> k, v |-> v]

Obj(isa, r, attrs, items, mro) ==
  [Value(isa, r) EXCEPT !.attrs = attrs, !.items = items, !.mro = mro]

Fixed ==
  << \* 1: the int 1; (1).real is 1 itself
     Obj({"int"}, ReprOk(<<"1">>), <<Attr(<<"r", "e", "a", "l">>, 1)>>, <<>>, <<>>),
     \* 2: True
     Obj({"int", "bool"}, ReprOk(<<"T", "r", "u", "e">>), <<>>, <<>>, <<>>),
     \* 3: None, with one special attribute whose value is None again
     Obj({"NoneType"}, ReprOk(<<"N", "o", "n", "e">>),
         <<Attr(<<"_", "_", "d", "_", "_">>, 3)>>, <<>>, <<>>),
     \* 4: the str 'a'
     Obj({"str"}, ReprOk(<<"'", "a", "'">>), <<>>, <<>>, <<>>),
     \* 5: a function
     Obj({"FunctionType"}, ReprOk(<<"<", "f", ">">>),
         <<Attr(<<"_", "_", "n", "_", "_">>, 4)>>, <<>>, <<>>),
     \* 6: the dict {'a': 1, None: True}
     Obj({"dict", "Mapping"}, ReprOk(<<"{", "}">>),
         <<Attr(<<"k", "e", "y", "s">>, 5)>>, <<Item(4, 1), Item(3, 2)>>, <<>>),
     \* 7: a list holding 1 and itself
     Obj({"list"}, ReprOk(<<"[", "]">>), <<>>, <<Item(0, 1), Item(0, 7)>>, <<>>),
     \* 8: a set holding an array and a wrapped exception, with a private
     \* attribute whose value cannot be rendered
     Obj({"set", "Set"}, ReprOk(<<"{", "}">>),
         <<Attr(<<"_">>, 15)>>, <<Item(0, 12), Item(0, 13)>>, <<>>),
     \* 9: a class C(object)
     Obj({"type"}, ReprOk(<<"<", "C", ">">>), <<Attr(<<"x">>, 2)>>, <<>>, <<9, 10>>),
     \* 10: the class object
     Obj({"type"}, ReprOk(<<"<", "o", ">">>), <<>>, <<>>, <<10>>),
     \* 11: an object with a method, a value whose repr raises, and a private
     \* method
     Obj({}, ReprOk(<<"<", "O", ">">>),
         <<Attr(<<"f">>, 5), Attr(<<"x">>, 14), Attr(<<"_", "y">>, 5)>>, <<>>, <<>>),
     \* 12: an array
     [Obj({"LazyArray"}, ReprOk(<<"a", "r", "r">>), <<>>, <<>>, <<>>)
        EXCEPT !.spec = <<"f", "3", "2", "[", "2", "]">>],
     \* 13: attrs.ExceptionWrapper(GoodError())
     [Obj({"ExceptionWrapper"}, ReprOk(<<"E", "x", "c", "(", ")">>), <<>>, <<>>, <<>>)
        EXCEPT !.e = "GoodError"],
     \* 14: an object whose __repr__ raises GoodError
     Obj({}, ReprRaises("GoodError"), <<>>, <<>>, <<>>),
     \* 15: an object whose __repr__ raises an exception whose __repr__ raises
     Obj({}, ReprRaises("BadReprError"), <<>>, <<>>, <<>>),
     \* 16: an object whose attribute names are made of underscores
     Obj({}, ReprOk(<<"<", "U", ">">>),
         <<Attr(<<"_", "_">>, 2), Attr(<<"a", "_", "_">>, 2), Attr(<<"_">>, 4)>>,
         <<>>, <<>>) >>

\* The objects whose attributes are enumerated: MaxAttrs attributes each, of
\* every kind in every order.  The attribute at position j is named after
\* the j-th letter, so the extractor's order is not the sorted one.
Letters == <<"c", "a", "e", "b", "d", "f">>

\* kinds of attributes: name pattern and value (2 is True, 5 a function)
AttrKinds == <<"val", "fn", "private_fn", "magic_fn", "prefix_val", "suffix_fn">>

KindAttr(kind, j) ==
  CASE kind = "val" -> Attr(<<Letters[j]>>, 2)
    [] kind = "fn" -> Attr(<<Letters[j]>>, 5)
    [] kind = "private_fn" -> Attr(<<"_", Letters[j]>>, 5)
    [] kind = "magic_fn" -> Attr(<<"_", "_", Letters[j], "_", "_">>, 5)
    [] kind = "prefix_val" -> Attr(<<"_", "_", Letters[j]>>, 2)
    [] kind = "suffix_fn" -> Attr(<<Letters[j], "_", "_">>, 5)

RECURSIVE Pow(_, _)
Pow(b, n) == IF n = 0 THEN 1 ELSE b * Pow(b, n - 1)

\* the i-th object: the kind of its j-th attribute is the j-th digit of i
AttrObject(i) ==
  Obj({}, ReprOk(<<"<", "A", ">">>),
      [j \in 1..MaxAttrs |->
         KindAttr(AttrKinds[((i \div Pow(Len(AttrKinds), j - 1)) % Len(AttrKinds)) + 1], j)],
      <<>>, <<>>)

Heap == Fixed \o [i \in 1..Pow(Len(AttrKinds), MaxAttrs) |-> AttrObject(i - 1)]

Addresses == 1..Len(Heap)

AttrAddresses == (Len(Fixed) + 1)..Len(Heap)

\* the generic objects: those above, and the ones of Fixed
ObjectInputs == AttrAddresses \cup {11, 14, 15, 16}

(***************************************************************************)
(* Nodes                                                                   *)
(***************************************************************************)
NoKey == [kind |-> "none", ref |-> 0, int |-> 0]

KeyObj(ref) == [kind |-> "obj", ref |-> ref, int |-> 0]

KeyInt(i) == [kind |-> "int", ref |-> 0, int |-> i]

\* the value a key stands for
KeyValue(key) == IF key.kind = "obj" THEN Heap[key.ref] ELSE IntValue(key.int)

\* id(v): an integer that identifies v
IdToken(ref) == 1000 + ref

\* an id generator that repeats itself
uuid1_reused(clock) == IF clock >= 2 THEN clock ELSE clock + 1

\* str(uuid.uuid1()): never the same value twice
uuid1(clock) == clock + 1

\* the k-th id handed out after clock
NthId(clock, k) == uuid1(clock + k - 1)

\* Node(): the base class, built directly
Node(id) ==
  [cls |-> "Node", id |-> id, obj |-> 0, name |-> <<>>,
   key |-> NoKey, value |-> 0, childs |-> <<>>]

\* sub_cls(obj=obj, name=name): ObjectNode or one of its subclasses
sub_cls(cls, id, obj, name) ==
  [cls |-> cls, id |-> id, obj |-> obj, name |-> name,
   key |-> NoKey, value |-> 0, childs |-> <<>>]

\* the node Node.from_obj(Heap[ref], name=name) returns
ObjectNode(id, ref, name) == sub_cls(from_obj_cls(Heap[ref]), id, ref, name)

KeyValNode(id, key, value) ==
  [cls |-> "KeyValNode", id |-> id, obj |-> 0, name |-> <<>>,
   key |-> key, value |-> value, childs |-> <<>>]

SubsectionNode(id, name, childs) ==
  [cls |-> "SubsectionNode", id |-> id, obj |-> 0, name |-> name,
   key |-> NoKey, value |-> 0, childs |-> childs]

is_root(node) == node.name = <<>>

is_leaf(node) ==
  CASE node.cls = "BuiltinNode" -> ~is_root(node)
    [] node.cls = "ExceptionNode" -> TRUE
    [] OTHER -> FALSE

(***************************************************************************)
(* header_html                                                             *)
(***************************************************************************)
_li(node, clickable, content) ==
  H_li(node.id,
       <<H_span(<<"caret",
                  IF clickable THEN "register-onclick-expand" ELSE "caret-invisible">>,
                content)>>)

ObjectNode_header_html(node) ==
  LET prefix == IF is_root(node) THEN <<>> ELSE node.name \o <<":", " ">>
      header_repr == _obj_html_repr(Heap[node.obj])
  IN IF header_repr.raised THEN header_repr
     ELSE Returned(_li(node, ~is_leaf(node),
                       <<H_span(<<"key-main">>, <<Text(prefix), header_repr.html>>)>>))

KeyValNode_header_html(node) ==
  LET k == _obj_html_repr(KeyValue(node.key))
      v == _obj_html_repr(Heap[node.value])
  IN IF k.raised THEN k
     ELSE IF v.raised THEN v
     ELSE Returned(_li(node, TRUE, <<k.html, Text(<<":", " ">>), v.html>>))

SubsectionNode_header_html(node) ==
  Returned(_li(node, TRUE,
               <<H_span(<<"preview">>, <<Text(<<"[", "[">> \o node.name \o <<"]", "]">>)>>)>>))

header_html(node) ==
  CASE node.cls = "Node" -> Raised("NotImplementedError")
    [] node.cls = "KeyValNode" -> KeyValNode_header_html(node)
    [] node.cls = "SubsectionNode" -> SubsectionNode_header_html(node)
    [] OTHER -> ObjectNode_header_html(node)

\* [c.header_html for c in childs], wrapped in H.ul: the first header that
\* raises ends the call
HeadersOf(childs) ==
  Bind([i \in 1..Len(childs) |-> header_html(childs[i])],
       LAMBDA hs :
         LET bad == {i \in 1..Len(hs) : hs[i].raised}
         IN IF bad # {} THEN hs[CHOOSE i \in bad : \A j \in bad : i <= j]
            ELSE Returned(H_ul(<<"collapsible">>, [i \in 1..Len(hs) |-> hs[i].html])))

(***************************************************************************)
(* all_childs.  Building a node registers it, so these return              *)
(*   new    : the nodes built, in the order their __post_init__ ran        *)
(*   childs : the list all_childs returns                                  *)
(* clock is the state of uuid1 when the call starts.                       *)
(***************************************************************************)
is_magic(c) == startswith(c.name, <<"_", "_">>) /\ endswith(c.name, <<"_", "_">>)

is_private(c) == ~is_magic(c) /\ startswith(c.name, <<"_">>)

\* the FnNode test made before the tests on the name
is_fn_any_name(c) == c.cls = "FnNode"

is_fn(c) == ~is_magic(c) /\ ~is_private(c) /\ c.cls = "FnNode"

is_val(c) == ~is_magic(c) /\ ~is_private(c) /\ ~is_fn(c)

\* if childs: all_childs.append(SubsectionNode(childs=childs, name=name))
Subsection(id, name, childs) ==
  IF childs # <<>> THEN <<SubsectionNode(id, name, childs)>> ELSE <<>>

Some(childs) == IF childs # <<>> THEN 1 ELSE 0

Methods == <<"M", "e", "t", "h", "o", "d", "s">>

Private == <<"P", "r", "i", "v", "a", "t", "e">>

SpecialAttributes ==
  <<"S", "p", "e", "c", "i", "a", "l", " ", "a", "t", "t", "r", "i", "b", "u", "t", "e", "s">>

\* nodes.py:191-216: c are the attribute nodes, clock the state of uuid1
\* after they were built
Grouped(c, clock) ==
  LET fn_attrs == SelectSeq(c, is_fn)
      private_attrs == SelectSeq(c, is_private)
      magic_attrs == SelectSeq(c, is_magic)
      subs == Subsection(NthId(clock, 1), Methods, fn_attrs)
                \o Subsection(NthId(clock, 1 + Some(fn_attrs)), Private, private_attrs)
                \o Subsection(NthId(clock, 1 + Some(fn_attrs) + Some(private_attrs)),
                              SpecialAttributes, magic_attrs)
  IN [new |-> c \o subs, childs |-> SelectSeq(c, is_val) \o subs]

\* one node per attribute, and per attribute of the first attribute's value
AttrNodes_deep(ref, clock) ==
  LET at == Heap[ref].attrs
      g == IF at = <<>> THEN <<>> ELSE Heap[at[1].val].attrs
  IN [i \in 1..Len(at) |-> ObjectNode(NthId(clock, i), at[i].val, at[i].name)]
       \o [i \in 1..Len(g) |-> ObjectNode(NthId(clock, Len(at) + i), g[i].val, g[i].name)]

\* nodes.py:187-189: one node per attribute
AttrNodes(ref, clock) ==
  LET at == Heap[ref].attrs
  IN [i \in 1..Len(at) |-> ObjectNode(NthId(clock, i), at[i].val, at[i].name)]

ObjectNode_all_childs(ref, clock) ==
  Bind(AttrNodes(ref, clock), LAMBDA c : Grouped(c, clock + Len(c)))

\* super().all_childs + [KeyValNode(...) for ...]
WithKeyValsLast(kv, ref, clock) ==
  Bind(ObjectNode_all_childs(ref, clock + Len(kv)),
       LAMBDA sup : [new |-> kv \o sup.new, childs |-> sup.childs \o kv])

\* [KeyValNode(...) for ...] + super().all_childs: the KeyValNodes are built
\* first
WithKeyVals(kv, ref, clock) ==
  Bind(ObjectNode_all_childs(ref, clock + Len(kv)),
       LAMBDA sup : [new |-> kv \o sup.new, childs |-> kv \o sup.childs])

MappingNode_all_childs(ref, clock) ==
  LET it == Heap[ref].items
  IN WithKeyVals([i \in 1..Len(it) |-> KeyValNode(NthId(clock, i), KeyObj(it[i].k), it[i].v)],
                 ref, clock)

SetNode_all_childs(ref, clock) ==
  LET it == Heap[ref].items
  IN WithKeyVals([i \in 1..Len(it) |->
                    KeyValNode(NthId(clock, i), KeyInt(IdToken(it[i].v)), it[i].v)],
                 ref, clock)

SequenceNode_all_childs(ref, clock) ==
  LET it == Heap[ref].items
  IN WithKeyVals([i \in 1..Len(it) |-> KeyValNode(NthId(clock, i), KeyInt(i - 1), it[i].v)],
                 ref, clock)

\* the [[mro]] subsection: one node per class of the mro, then the subsection
MroSubsection(ref, clock) ==
  LET mro == Heap[ref].mro
  IN Bind([i \in 1..Len(mro) |-> ObjectNode(NthId(clock, i), mro[i], <<>>)],
          LAMBDA m : m \o <<SubsectionNode(NthId(clock + Len(m), 1), <<"m", "r", "o">>, m)>>)

\* super().all_childs + [SubsectionNode(childs=[...], name='mro')]
ClsNode_all_childs(ref, clock) ==
  Bind(ObjectNode_all_childs(ref, clock),
       LAMBDA sup :
         Bind(MroSubsection(ref, clock + Len(sup.new)),
              LAMBDA m : [new |-> sup.new \o m, childs |-> sup.childs \o <<m[Len(m)]>>]))

all_childs(node, clock) ==
  CASE node.cls = "MappingNode" -> MappingNode_all_childs(node.obj, clock)
    [] node.cls = "SetNode" -> SetNode_all_childs(node.obj, clock)
    [] node.cls = "SequenceNode" -> SequenceNode_all_childs(node.obj, clock)
    [] node.cls = "ClsNode" -> ClsNode_all_childs(node.obj, clock)
    [] OTHER -> ObjectNode_all_childs(node.obj, clock)

(***************************************************************************)
(* inner_html: [new, ret], the nodes built and what the call returns       *)
(***************************************************************************)
ObjectNode_inner_html(node, clock) ==
  Bind(all_childs(node, clock), LAMBDA ac : [new |-> ac.new, ret |-> HeadersOf(ac.childs)])

SubsectionNode_inner_html(node) ==
  [new |-> <<>>, ret |-> HeadersOf(node.childs)]

\* Node.from_obj(self.value).inner_html
KeyValNode_inner_html(node, clock) ==
  Bind(ObjectNode(NthId(clock, 1), node.value, <<>>),
       LAMBDA v :
         Bind(ObjectNode_inner_html(v, clock + 1),
              LAMBDA inner : [new |-> <<v>> \o inner.new, ret |-> inner.ret]))

inner_html(node, clock) ==
  CASE node.cls = "Node" -> [new |-> <<>>, ret |-> Raised("NotImplementedError")]
    [] node.cls = "KeyValNode" -> KeyValNode_inner_html(node, clock)
    [] node.cls = "SubsectionNode" -> SubsectionNode_inner_html(node)
    [] OTHER -> ObjectNode_inner_html(node, clock)

(***************************************************************************)
(* The registry and the calls made on it                                   *)
(***************************************************************************)
Range(seq) == {seq[i] : i \in 1..Len(seq)}

\* Node.__post_init__ for each node of new, in order: _ALL_NODES[self.id] = self
Registered(reg, new) ==
  [i \in DOMAIN reg \cup {n.id : n \in Range(new)} |->
     LET later == {k \in 1..Len(new) : new[k].id = i}
     IN IF later # {} THEN new[CHOOSE k \in later : \A j \in later : j <= k]
        ELSE reg[i]]

NoNode == SubsectionNode(0, <<>>, <<>>)

Result(op, id, ret, call) ==
  [op |-> op, node |-> id, ret |-> ret, raised |-> call.raised, exc |-> call.exc,
   html |-> call.html, childs |-> <<>>]

NoResult == Result("none", 0, NoNode, Returned(Text(<<>>)))

Register(new) ==
  /\ ALL_NODES' = Registered(ALL_NODES, new)
  /\ uuid_clock' = uuid_clock + Len(new)
  /\ constructed' = constructed \cup Range(new)

PureUnchanged == UNCHANGED <<arg, out, pc>>

Init ==
  /\ ALL_NODES = [i \in {} |-> NoNode]
  /\ uuid_clock = 0
  /\ constructed = {}
  /\ result = NoResult
  /\ arg = 0
  /\ out = 0
  /\ pc = "idle"

\* a call from outside that builds a node is made while the registry holds
\* fewer than MaxOutside nodes, and every call while it has room for the
\* nodes the call builds
Outside == Cardinality(DOMAIN ALL_NODES) < MaxOutside

Room(new) == Cardinality(DOMAIN ALL_NODES) + Len(new) <= MaxNodes

\* the node a constructor returns, registered by its __post_init__
Built(op, node) ==
  /\ Outside
  /\ Room(<<node>>)
  /\ Register(<<node>>)
  /\ result' = Result(op, node.id, node, Returned(Text(<<>>)))
  /\ PureUnchanged

\* node = Node.from_obj(obj, name=name)
FromObj(ref, name) == Built("from_obj", ObjectNode(NthId(uuid_clock, 1), ref, name))

\* node = sub_cls(obj=obj, name=name), the class chosen by the caller
NewObjectNode(cls, ref, name) ==
  Built("sub_cls", sub_cls(cls, NthId(uuid_clock, 1), ref, name))

\* node = KeyValNode(key=key, value=value)
NewKeyValNode(key, value) ==
  Built("KeyValNode", KeyValNode(NthId(uuid_clock, 1), key, value))

\* node = SubsectionNode(childs=childs, name=name)
NewSubsectionNode(name, childs) ==
  Built("SubsectionNode", SubsectionNode(NthId(uuid_clock, 1), name, childs))

\* node = Node()
NewNode == Built("Node", Node(NthId(uuid_clock, 1)))

\* Node.from_id(id_): _ALL_NODES[id_], a KeyError when the id is unknown
FromId(id) ==
  /\ result' = IF id \in DOMAIN ALL_NODES
               THEN Result("from_id", id, ALL_NODES[id], Returned(Text(<<>>)))
               ELSE Result("from_id", id, NoNode, Raised("KeyError"))
  /\ UNCHANGED <<ALL_NODES, uuid_clock, constructed>>
  /\ PureUnchanged

\* a header_html that enumerates the node's children to render
HeaderHtml_enumerates(node) ==
  /\ node \in constructed
  /\ \E call \in {inner_html(node, uuid_clock)} :
        /\ Room(call.new)
        /\ Register(call.new)
  /\ result' = Result("header_html", node.id, node, header_html(node))
  /\ PureUnchanged

\* node.header_html, on any node built so far
HeaderHtml(node) ==
  /\ node \in constructed
  /\ result' = Result("header_html", node.id, node, header_html(node))
  /\ UNCHANGED <<ALL_NODES, uuid_clock, constructed>>
  /\ PureUnchanged

\* node.inner_html, on any node built so far
InnerHtml(node) ==
  /\ node \in constructed
  /\ \E call \in {inner_html(node, uuid_clock)} :
        /\ Room(call.new)
        /\ Register(call.new)
        /\ result' = Result("inner_html", node.id, node, call.ret)
  /\ PureUnchanged

\* node.all_childs, on any node built so far: a property of ObjectNode and
\* its subclasses only
AllChilds(node) ==
  /\ node \in constructed
  /\ IF node.cls \in {"Node", "KeyValNode", "SubsectionNode"}
     THEN /\ result' = Result("all_childs", node.id, node, Raised("AttributeError"))
          /\ UNCHANGED <<ALL_NODES, uuid_clock, constructed>>
     ELSE \E call \in {all_childs(node, uuid_clock)} :
            /\ Room(call.new)
            /\ Register(call.new)
            /\ result' = [Result("all_childs", node.id, node, Returned(Text(<<>>)))
                            EXCEPT !.childs = call.childs]
  /\ PureUnchanged

\* the calls of Node.from_obj made from outside: (obj, name)
FromObjInputs ==
  ({1, 6, 7, 8, 11, 16} \X {<<>>}) \cup {<<4, <<"x">>>>}

\* a BuiltinNode built directly on a value from_obj gives an ObjectNode
SubClsInputs == {<<"BuiltinNode", 11, <<>>>>}

\* an entry built directly: 'a' -> the class C
KeyValInputs == {<<KeyObj(4), 9>>}

\* list(_ALL_NODES.values()): the nodes built so far, as the childs of a
\* SubsectionNode built directly
ChildLists == {[i \in 1..Cardinality(DOMAIN ALL_NODES) |-> ALL_NODES[i]]}

Next ==
  \/ \E c \in FromObjInputs : FromObj(c[1], c[2])
  \/ \E c \in SubClsInputs : NewObjectNode(c[1], c[2], c[3])
  \/ \E c \in KeyValInputs : NewKeyValNode(c[1], c[2])
  \/ \E childs \in ChildLists : NewSubsectionNode(<<"x">>, childs)
  \/ NewNode
  \/ \E id \in DOMAIN ALL_NODES \cup {uuid_clock + 1} : FromId(id)
  \/ \E node \in constructed : HeaderHtml(node)
  \/ \E node \in constructed : InnerHtml(node)
  \/ \E node \in constructed : AllChilds(node)

Spec == Init /\ [][Next]_vars

(***************************************************************************)
(* Inputs of the direct calls                                              *)
(***************************************************************************)
Specials == {<<>>, <<"&">>, <<"<">>, <<">">>, <<"\"">>, <<"'">>}

\* k plain characters, possibly one character html.escape rewrites, m more
TestString(k, sp, m) == Rep("a", k) \o sp \o Rep("b", m)

TruncInputs ==
  {TestString(k, sp, m) : k \in 0..(TruncateLimit + MaxOver), sp \in Specials, m \in 0..MaxPad}

ReprStrings ==
  {TestString(k, sp, m) :
     k \in {0, TruncateLimit - 1, TruncateLimit + MaxOver},
     sp \in {<<>>, <<"&">>, <<"'">>}, m \in {0, MaxPad}}

ReprOutcomes ==
  {ReprOk(s) : s \in ReprStrings} \cup {ReprRaises(exc) : exc \in Exceptions}

\* types that cannot be subclassed: their repr is the builtin one
FinalValues ==
  { Value({"NoneType"}, ReprOk(<<"N", "o", "n", "e">>)),
    Value({"ellipsis"}, ReprOk(<<"E", "l", "l", "i", "p", "s", "i", "s">>)),
    Value({"int", "bool"}, ReprOk(<<"T", "r", "u", "e">>)),
    Value({"int", "bool"}, ReprOk(<<"F", "a", "l", "s", "e">>)) }

\* types a class with its own __repr__ can derive from
OpenBases ==
  { {}, {"int"}, {"float"}, {"str"}, {"bytes"}, {"list"}, {"dict", "Mapping"},
    {"partial"}, {"type"} }

ArrayValue(r) ==
  [Value({"LazyArray"}, r) EXCEPT !.spec = <<"f", "3", "2", "[", "2", "]">>]

ReprInputs ==
  FinalValues
    \cup {Value(b, r) : b \in OpenBases, r \in ReprOutcomes}
    \cup {ArrayValue(r) : r \in ReprOutcomes}
    \cup {[ExceptionWrapper(exc) EXCEPT !.repr = r] : exc \in Exceptions, r \in ReprOutcomes}

\* one concrete layout (or none), plus what can be added by registering with
\* an abc or by inheriting from a plain class
TypeBases ==
  { {}, {"NoneType"}, {"ellipsis"}, {"int"}, {"int", "bool"}, {"float"}, {"str"},
    {"bytes"}, {"FunctionType"}, {"BuiltinFunctionType"}, {"MethodType"},
    {"MethodDescriptorType"}, {"partial"}, {"dict", "Mapping"}, {"list"},
    {"tuple"}, {"set", "Set"}, {"frozenset", "Set"}, {"type"} }

TypeInputs ==
  {Value(b \cup f, ReprOk(<<>>)) :
     b \in TypeBases, f \in SUBSET {"Mapping", "Set", "LazyArray", "ExceptionWrapper"}}

(***************************************************************************)
(* Direct calls of the module-level functions and of the class selection   *)
(***************************************************************************)
RegistryIdle ==
  /\ ALL_NODES = [i \in {} |-> NoNode]
  /\ uuid_clock = 0
  /\ constructed = {}
  /\ result = NoResult

RegistryUnchanged == UNCHANGED <<ALL_NODES, uuid_clock, constructed, result>>

\* the names Node.from_obj is called with
RootNames == {<<>>, <<"x">>}

InitTruncate == RegistryIdle /\ arg \in TruncInputs /\ out = Text(<<>>) /\ pc = "call"

CallTruncate ==
  /\ pc = "call"
  /\ out' = _truncate_long_str(arg)
  /\ pc' = "done"
  /\ UNCHANGED arg
  /\ RegistryUnchanged

SpecTruncate == InitTruncate /\ [][CallTruncate]_vars

InitRepr == RegistryIdle /\ arg \in ReprInputs /\ out = Returned(Text(<<>>)) /\ pc = "call"

CallObjHtmlRepr ==
  /\ pc = "call"
  /\ out' = _obj_html_repr(arg)
  /\ pc' = "done"
  /\ UNCHANGED arg
  /\ RegistryUnchanged

SpecRepr == InitRepr /\ [][CallObjHtmlRepr]_vars

InitSelect == RegistryIdle /\ arg \in TypeInputs /\ out = NoNode /\ pc = "call"

\* out = Node.from_obj(arg, name=name): the class is selected, the node built
\* and registered; a value no class matches raises TypeError
CallFromObj(name) ==
  /\ pc = "call"
  /\ \E cls \in {from_obj_cls(arg)} :
       IF cls = "TypeError"
       THEN /\ result' = Result("from_obj", 0, NoNode, Raised("TypeError"))
            /\ UNCHANGED <<ALL_NODES, uuid_clock, constructed, out>>
       ELSE \E node \in {sub_cls(cls, NthId(uuid_clock, 1), arg, name)} :
              /\ Register(<<node>>)
              /\ result' = Result("from_obj", node.id, node, Returned(Text(<<>>)))
              /\ out' = node
  /\ pc' = "done"
  /\ UNCHANGED arg

SpecSelect == InitSelect /\ [][\E name \in RootNames : CallFromObj(name)]_vars

\* The attributes of one object are enumerated: a node is built for it, then
\* its child list is read, or its children are rendered.
InitChilds == RegistryIdle /\ arg \in ObjectInputs /\ out = NoNode /\ pc = "call"

\* out = Node.from_obj(arg)
ChildsFromObj ==
  /\ pc = "call"
  /\ \E node \in {ObjectNode(NthId(uuid_clock, 1), arg, <<>>)} :
        /\ Register(<<node>>)
        /\ result' = Result("from_obj", node.id, node, Returned(Text(<<>>)))
        /\ out' = node
  /\ pc' = "built"
  /\ UNCHANGED arg

\* out.all_childs
ChildsAllChilds ==
  /\ pc = "built"
  /\ \E call \in {all_childs(out, uuid_clock)} :
        /\ Register(call.new)
        /\ result' = [Result("all_childs", out.id, out, Returned(Text(<<>>)))
                        EXCEPT !.childs = call.childs]
  /\ pc' = "done"
  /\ UNCHANGED <<arg, out>>

\* out.inner_html
ChildsInnerHtml ==
  /\ pc = "built"
  /\ \E call \in {inner_html(out, uuid_clock)} :
        /\ Register(call.new)
        /\ result' = Result("inner_html", out.id, out, call.ret)
  /\ pc' = "done"
  /\ UNCHANGED <<arg, out>>

SpecChilds == InitChilds /\ [][ChildsFromObj \/ ChildsAllChilds \/ ChildsInnerHtml]_vars

(***************************************************************************)
(* Claims about the registry and the rendering of nodes (Spec)             *)
(***************************************************************************)
Matches(obj, cls) == isinstance(obj, MATCH_TYPES(cls))

\* C1: every node built so far is in the registry under its own id, no two
\* nodes share an id, and from_id of a known id returns the node built with
\* that id.
C1_RegistryKeepsEveryNode ==
  /\ \A n \in constructed : n.id \in DOMAIN ALL_NODES /\ ALL_NODES[n.id] = n
  /\ \A n, m \in constructed : n.id = m.id => n = m
  /\ Cardinality(DOMAIN ALL_NODES) = uuid_clock
  /\ (result.op = "from_id" /\ ~result.raised) =>
       result.ret \in constructed /\ result.ret.id = result.node

\* two nodes were built from outside, the first one was expanded, and
\* from_id returned a KeyValNode the expansion built
C1_Witness ==
  /\ result.op = "from_id"
  /\ ~result.raised
  /\ result.ret.cls = "KeyValNode"
  /\ result.node >= 3
  /\ ALL_NODES[1].cls = "MappingNode"
  /\ ALL_NODES[2].cls \notin {"KeyValNode", "SubsectionNode"}

\* C2 as stated: neither header_html nor inner_html changes the registry.
C2_RenderingLeavesRegistry ==
  [][result'.op \in {"header_html", "inner_html"} => ALL_NODES' = ALL_NODES]_vars

\* C2 as amended: header_html leaves the registry unchanged; inner_html only
\* adds entries to it (the nodes it builds), never removing or replacing one,
\* and leaves it unchanged on a SubsectionNode.
C2_HeaderPureInnerOnlyAdds ==
  [][/\ result'.op = "header_html" =>
          ALL_NODES' = ALL_NODES /\ constructed' = constructed
     /\ result'.op = "inner_html" =>
          /\ \A i \in DOMAIN ALL_NODES : i \in DOMAIN ALL_NODES' /\ ALL_NODES'[i] = ALL_NODES[i]
          /\ constructed \subseteq constructed'
          /\ result'.ret.cls = "SubsectionNode" => ALL_NODES' = ALL_NODES]_vars

\* the inner_html of a mapping node has added nodes to the registry
C2_Witness ==
  /\ result.op = "inner_html"
  /\ result.ret.cls = "MappingNode"
  /\ \E n \in constructed : n.id > result.node /\ n.cls = "KeyValNode"

\* the <li> elements of a rendered list of children
Lis(r) == r.html.content

\* the class that makes a <li> clickable or not
LiClass(li) == li.content[1].class[2]

\* C4: a builtin scalar at the root is rendered clickable; as a value of a
\* mapping, its entry among the mapping's children is rendered not clickable.
C4_NestedBuiltinNotClickable ==
  /\ (result.op = "header_html" /\ ~result.raised /\ result.ret.cls = "BuiltinNode"
        /\ result.ret.name = <<>>) =>
       LiClass(result.html) = "register-onclick-expand"
  /\ (result.op = "inner_html" /\ ~result.raised /\ result.ret.cls = "MappingNode") =>
       \A i \in 1..Len(Lis(result)) :
         LET kid == ALL_NODES[Lis(result)[i].id] IN
         (kid.cls = "KeyValNode" /\ Matches(Heap[kid.value], "BuiltinNode")) =>
           LiClass(Lis(result)[i]) = "caret-invisible"

\* the bucket the claim gives an attribute
BucketOf(a) ==
  IF startswith(a.name, <<"_", "_">>) /\ endswith(a.name, <<"_", "_">>)
  THEN "Special attributes"
  ELSE IF startswith(a.name, <<"_">>) THEN "Private"
  ELSE IF Matches(Heap[a.val], "FnNode") THEN "Methods"
  ELSE "inline"

\* the children the claim expects for attributes at: [sec, members]
ExpectedChilds(at) ==
  LET inl(a) == BucketOf(a) = "inline"
      met(a) == BucketOf(a) = "Methods"
      pri(a) == BucketOf(a) = "Private"
      spe(a) == BucketOf(a) = "Special attributes"
      Sec(name, m) == IF m = <<>> THEN <<>> ELSE <<[sec |-> name, members |-> m]>>
      inline == SelectSeq(at, inl)
  IN [i \in 1..Len(inline) |-> [sec |-> <<>>, members |-> <<inline[i]>>]]
       \o Sec(<<"M", "e", "t", "h", "o", "d", "s">>, SelectSeq(at, met))
       \o Sec(<<"P", "r", "i", "v", "a", "t", "e">>, SelectSeq(at, pri))
       \o Sec(<<"S", "p", "e", "c", "i", "a", "l", " ", "a", "t", "t", "r", "i", "b", "u",
                "t", "e", "s">>, SelectSeq(at, spe))

\* the child list was returned by all_childs, or rendered by inner_html
Listed(r) == r.op \in {"inner_html", "all_childs"} /\ ~r.raised

\* the children: the list all_childs returned, or the nodes whose headers
\* inner_html rendered, in order
Kids(r) ==
  IF r.op = "all_childs" THEN r.childs
  ELSE [i \in 1..Len(Lis(r)) |-> ALL_NODES[Lis(r)[i].id]]

\* what a child is: an attribute, or a subsection of attributes
ChildOf(kid) ==
  IF kid.cls = "SubsectionNode"
  THEN [sec |-> kid.name,
        members |-> [j \in 1..Len(kid.childs) |-> Attr(kid.childs[j].name, kid.childs[j].obj)]]
  ELSE [sec |-> <<>>, members |-> <<Attr(kid.name, kid.obj)>>]

\* C5: the children of a generic object node are its inline value
\* attributes, then the subsections Methods, Private, Special attributes that
\* are not empty; each attribute is in the one bucket its name and value give
\* it, and inside each bucket (and among the inline attributes) the
\* attributes are in the extractor's order.
C5_AttributesBucketed ==
  (Listed(result) /\ result.ret.cls = "ObjectNode") =>
    [i \in 1..Len(Kids(result)) |-> ChildOf(Kids(result)[i])]
      = ExpectedChilds(Heap[result.ret.obj].attrs)

\* the child list of an object with the attributes c, a (values), e (a
\* method), _b (a private method) and __d__ was returned or rendered: the two
\* values in the extractor's order, then the three subsections
C5_Witness ==
  /\ Listed(result)
  /\ result.ret.cls = "ObjectNode"
  /\ Len(Heap[result.ret.obj].attrs) = 5
  /\ Len(Kids(result)) = 5
  /\ Kids(result)[1].name = <<"c">>
  /\ Kids(result)[2].name = <<"a">>
  /\ Kids(result)[3].name = Methods
  /\ Kids(result)[4].name = Private
  /\ Kids(result)[5].name = SpecialAttributes

\* C9: the children of a mapping, sequence or set node start with one
\* KeyValNode per entry, in iteration order, keyed by the entry's key, by the
\* index, or by the element's identity token; no KeyValNode comes after them.
C9_KeyValsFirst ==
  (Listed(result) /\ result.ret.cls \in {"MappingNode", "SequenceNode", "SetNode"}) =>
    LET it == Heap[result.ret.obj].items
        kid(i) == Kids(result)[i]
    IN /\ Len(Kids(result)) >= Len(it)
       /\ \A i \in 1..Len(Kids(result)) :
            IF i <= Len(it)
            THEN /\ kid(i).cls = "KeyValNode"
                 /\ kid(i).value = it[i].v
                 /\ kid(i).key =
                      CASE result.ret.cls = "MappingNode" ->
                             [kind |-> "obj", ref |-> it[i].k, int |-> 0]
                        [] result.ret.cls = "SequenceNode" ->
                             [kind |-> "int", ref |-> 0, int |-> i - 1]
                        [] result.ret.cls = "SetNode" ->
                             [kind |-> "int", ref |-> 0, int |-> IdToken(it[i].v)]
            ELSE kid(i).cls # "KeyValNode"

\* a mapping with two entries and a method was expanded
C9_Witness ==
  /\ result.op = "inner_html"
  /\ ~result.raised
  /\ result.ret.cls = "MappingNode"
  /\ Len(Heap[result.ret.obj].items) = 2
  /\ Len(Lis(result)) = 3

\* C10: one inner_html builds nodes for the direct children of the node's
\* value only (one per attribute, one per entry, one per class of the mro,
\* the value's own node for a KeyValNode, and the subsections grouping them),
\* none for a SubsectionNode, and renders one header per child.
C10_OneLevelOnly ==
  [][result'.op = "inner_html" =>
       LET n == result'.ret
           new == constructed' \ constructed
           t == IF n.cls = "KeyValNode" THEN n.value ELSE n.obj
           eff == IF n.cls = "KeyValNode" THEN from_obj_cls(Heap[n.value]) ELSE n.cls
           subs == {m \in new : m.cls = "SubsectionNode"}
           kvs == {m \in new : m.cls = "KeyValNode"}
           named == {m \in new \ (subs \cup kvs) : m.name # <<>>}
           unnamed == {m \in new \ (subs \cup kvs) : m.name = <<>>}
       IN IF n.cls \in {"Node", "SubsectionNode"} THEN new = {}
          ELSE /\ Cardinality(named) = Len(Heap[t].attrs)
               /\ \A m \in named : \E i \in 1..Len(Heap[t].attrs) :
                    Heap[t].attrs[i] = Attr(m.name, m.obj)
               /\ Cardinality(kvs) =
                    IF eff \in {"MappingNode", "SequenceNode", "SetNode"}
                    THEN Len(Heap[t].items) ELSE 0
               /\ \A m \in kvs : \E i \in 1..Len(Heap[t].items) : Heap[t].items[i].v = m.value
               /\ Cardinality(unnamed) =
                    (IF n.cls = "KeyValNode" THEN 1 ELSE 0)
                      + (IF eff = "ClsNode" THEN Len(Heap[t].mro) ELSE 0)
               /\ \A m \in unnamed :
                    m.obj = t \/ \E i \in 1..Len(Heap[t].mro) : Heap[t].mro[i] = m.obj
               /\ Cardinality(subs) <= 4
               /\ \A m \in subs : \A j \in 1..Len(m.childs) : m.childs[j] \in new
               /\ ~result'.raised =>
                    /\ result'.html.tag = "ul"
                    /\ \A i \in 1..Len(result'.html.content) :
                         /\ result'.html.content[i].tag = "li"
                         /\ result'.html.content[i].id \in {m.id : m \in new}]_vars

\* a value that has itself as an attribute was expanded, then the child built
\* for that attribute was expanded in turn
C10_Witness ==
  /\ result.op = "inner_html"
  /\ ~result.raised
  /\ result.ret.cls \notin {"KeyValNode", "SubsectionNode"}
  /\ result.ret.name # <<>>
  /\ \E i \in 1..Len(Heap[result.ret.obj].attrs) :
       Heap[result.ret.obj].attrs[i].val = result.ret.obj
  /\ \E m \in constructed : m.id > result.node /\ m.obj = result.ret.obj /\ m.name # <<>>

(***************************************************************************)
(* Claims about the class selection (SpecSelect)                           *)
(***************************************************************************)
\* the first class of order that obj matches
FirstIn(order, obj) ==
  IF \A i \in 1..Len(order) : ~Matches(obj, order[i]) THEN "TypeError"
  ELSE order[CHOOSE i \in 1..Len(order) :
               Matches(obj, order[i]) /\ \A j \in 1..(i - 1) : ~Matches(obj, order[j])]

\* C3 as stated: the variant returned is the first match in the order builtin
\* scalar, mapping, sequence, set, class, array, exception wrapper, generic
\* object.
C3_FirstMatchInStatedOrder ==
  pc = "done" =>
    out.cls = FirstIn(<<"BuiltinNode", "MappingNode", "SequenceNode", "SetNode", "ClsNode",
                    "ArrayNode", "ExceptionNode", "ObjectNode">>, arg)

\* C3 as amended: the variant returned is the first match in the order builtin
\* scalar, function, mapping, sequence, set, class, array, exception wrapper,
\* generic object; the generic variant is returned only when none of the
\* eight before it matches.
C3_FirstMatchWithFunction ==
  pc = "done" =>
    /\ ~result.raised
    /\ out.obj = arg
    /\ out.cls = FirstIn(<<"BuiltinNode", "FnNode", "MappingNode", "SequenceNode", "SetNode",
                       "ClsNode", "ArrayNode", "ExceptionNode", "ObjectNode">>, arg)
    /\ out.cls = "ObjectNode" =>
         \A c \in {"BuiltinNode", "FnNode", "MappingNode", "SequenceNode", "SetNode",
                   "ClsNode", "ArrayNode", "ExceptionNode"} : ~Matches(arg, c)

\* a list registered as a Mapping was given a MappingNode, and a function one
\* a FnNode
C3_Witness ==
  /\ pc = "done"
  /\ \/ "list" \in arg.isa /\ "Mapping" \in arg.isa /\ out.cls = "MappingNode"
     \/ "FunctionType" \in arg.isa /\ out.cls = "FnNode"

(***************************************************************************)
(* Claims about _obj_html_repr (SpecRepr)                                  *)
(***************************************************************************)
\* the class of the span returned
Tag(r) == r.html.class[1]

IsGeneric(obj) ==
  obj.isa \cap {"NoneType", "ellipsis", "int", "float", "bool", "str", "bytes",
                "LazyArray", "ExceptionWrapper"} = {}

\* the tag by the stated priority list, with the given tag for the last rule
TagByPriority(obj, last) ==
  IF obj.isa \cap {"NoneType", "ellipsis"} # {} THEN "null"
  ELSE IF obj.isa \cap {"int", "float"} # {} THEN "number"
  ELSE IF "bool" \in obj.isa THEN "boolean"
  ELSE IF obj.isa \cap {"str", "bytes"} # {} THEN "string"
  ELSE IF "LazyArray" \in obj.isa THEN "number"
  ELSE IF "ExceptionWrapper" \in obj.isa THEN "error"
  ELSE last

\* C6 as stated: the tag of the fragment returned is given by the priority
\* list None/Ellipsis, int/float, bool, str/bytes, array, exception wrapper,
\* with 'preview' for anything else; no value is tagged 'boolean'.
C6_TagByStatedRules ==
  (pc = "done" /\ ~out.raised) =>
    /\ Tag(out) = TagByPriority(arg, "preview")
    /\ Tag(out) # "boolean"

\* C6 as amended: as stated, except that a value none of the first six rules
\* matches is tagged 'preview' when its repr succeeds and 'error' when its
\* repr raises; every bool is tagged 'number'.
C6_TagByRulesReprAware ==
  (pc = "done" /\ ~out.raised) =>
    /\ Tag(out) = TagByPriority(arg, IF arg.repr.ok THEN "preview" ELSE "error")
    /\ Tag(out) # "boolean"
    /\ "bool" \in arg.isa => Tag(out) = "number"

\* True was rendered, and a value whose repr raises was
C6_Witness ==
  /\ pc = "done"
  /\ ~out.raised
  /\ \/ "bool" \in arg.isa /\ Tag(out) = "number"
     \/ IsGeneric(arg) /\ ~arg.repr.ok /\ Tag(out) = "error"

\* C7: the call never raises; a generic value whose repr fails is rendered as
\* an 'error' fragment, also when rendering the wrapped exception fails; None
\* and Ellipsis are rendered as 'null' fragments.
C7_NeverRaises ==
  pc = "done" =>
    /\ ~out.raised
    /\ (IsGeneric(arg) /\ ~arg.repr.ok) => Tag(out) = "error"
    /\ arg.isa \cap {"NoneType", "ellipsis"} # {} => Tag(out) = "null"

(***************************************************************************)
(* Claims about _truncate_long_str (SpecTruncate)                          *)
(***************************************************************************)
\* C8: the value is escaped first; longer than 80 characters once escaped, it
\* becomes a switch with a short version (the first 80 escaped characters and
\* the expand marker) and a long version (the whole escaped string);
\* otherwise the escaped string is returned as it is.
C8_TruncateAtEighty ==
  pc = "done" =>
    LET v == html_escape(arg) IN
    IF Len(v) > 80
    THEN /\ out.tag = "span"
         /\ out.class = <<"content-switch">>
         /\ Len(out.content) = 2
         /\ out.content[1].class = <<"content-version-short">>
         /\ Len(out.content[1].content) = 2
         /\ out.content[1].content[1] = Text(SubSeq(v, 1, 80))
         /\ Len(out.content[1].content[1].text) = 80
         /\ out.content[1].content[2].tag = "span"
         /\ out.content[1].content[2].content = <<Text(<<".", ".", ".">>)>>
         /\ out.content[2].tag = "span"
         /\ out.content[2].content = <<Text(v)>>
    ELSE out = Text(v)

\* a string of at most 80 characters that escaping makes longer than 80 was
\* truncated, or one of exactly 80 escaped characters was returned whole
C8_Witness ==
  /\ pc = "done"
  /\ \/ Len(arg) <= 80 /\ Len(html_escape(arg)) > 80 /\ out.tag = "span"
     \/ Len(html_escape(arg)) = 80 /\ out.tag = "text"

====
